---- MODULE Spec2Model ----
(***************************************************************************)
(* Interactive Gantt chart editor: the shell (App.js), the chart with its  *)
(* drag engine and inline name editing (GanttChart.js), the calendar       *)
(* helpers (utils/time.js) and the CSV import (utils/csv.js).              *)
(*                                                                         *)
(* Time is an integer number of clock units; UnitsPerDay units make a day  *)
(* (the code counts milliseconds).  Unit 0 is local midnight of a Monday   *)
(* that is also January 1 of the current year; the local zone has no       *)
(* daylight-saving shift.  A pixel coordinate is a rational: a numerator   *)
(* over a positive denominator that the context names.                     *)
(***************************************************************************)
EXTENDS Integers, Sequences, FiniteSets, TLC

(***************************************************************************)
(* Bounds of the model.                                                    *)
(***************************************************************************)
UnitsPerDay == 4        \* clock resolution: units per calendar day
MaxGestures == 2        \* pointer-downs, double-clicks, zoom, theme and image
                        \* download clicks in one behaviour (imports, exports,
                        \* pointer-moves, pointer-ups, typing and commits are
                        \* not counted)

(***************************************************************************)
(* Program constants.                                                      *)
(***************************************************************************)
WEEK_COL_WIDTH == 80
LEFT_COL_WIDTH == 260
MIN_BAR_WIDTH == 8
HANDLE_HALF_WIDTH == 3
MILESTONE_RADIUS == 8
DEFAULT_CONTAINER_WIDTH == 800
DEFAULT_PADDING_DAYS == 2
EMPTY_WINDOW_DAYS == 7
FALLBACK_DAYS == 7

Day == UnitsPerDay
Week == 7 * Day

(***************************************************************************)
(* date-fns helpers, on clock units.                                       *)
(***************************************************************************)
startOfDay(t) == (t \div Day) * Day

addDays(t, n) == t + n * Day

addWeeks(t, n) == t + n * Week

\* Monday-based week (weekStartsOn: 1); unit 0 is a Monday.
startOfWeek(t) == (t \div Week) * Week

\* The last clock unit of the Sunday of t's week.
endOfWeek(t) == startOfWeek(t) + Week - 1

\* Calendar days from b to a: midnights compared, the time of day ignored.
differenceInCalendarDays(a, b) == (a \div Day) - (b \div Day)

Max(a, b) == IF a >= b THEN a ELSE b

Min(a, b) == IF a <= b THEN a ELSE b

(***************************************************************************)
(* utils/time.js                                                           *)
(***************************************************************************)
\* new Date(num / den), den > 0: the fraction is dropped, towards zero.
DateOfQuotient(num, den) ==
    IF num >= 0 THEN num \div den ELSE -((-num) \div den)

\* The optional centerDate argument.
NoCenter == [given |-> FALSE, t |-> 0]

Center(t) == [given |-> TRUE, t |-> t]

\* A zoom that multiplies the half span by the factor.
zoomDomainAroundInverted(dom, fNum, fDen, centerDate) ==
    LET msStart == dom[1]
        msEnd == dom[2]
        center2 == IF centerDate.given THEN 2 * centerDate.t ELSE msStart + msEnd
        lo == center2 * fDen - (msEnd - msStart) * fNum
        hi == center2 * fDen + (msEnd - msStart) * fNum
    IN  << DateOfQuotient(lo, 2 * fDen), DateOfQuotient(hi, 2 * fDen) >>

\* [start, end] scaled by 1/factor around centerDate, or around its midpoint
\* when no centerDate is passed; factor = fNum/fDen.
zoomDomainAround(dom, fNum, fDen, centerDate) ==
    LET msStart == dom[1]
        msEnd == dom[2]
        \* twice the center
        center2 == IF centerDate.given THEN 2 * centerDate.t ELSE msStart + msEnd
        \* center - halfSpan and center + halfSpan over the denominator 2 * fNum
        lo == center2 * fNum - (msEnd - msStart) * fDen
        hi == center2 * fNum + (msEnd - msStart) * fDen
    IN  << DateOfQuotient(lo, 2 * fNum), DateOfQuotient(hi, 2 * fNum) >>

\* zoomDomain(prev, factor), as App calls it.
zoomDomain(dom, fNum, fDen) == zoomDomainAround(dom, fNum, fDen, NoCenter)

\* A rounding that takes the start of the week at both ends.
roundDomainToWeeksEndsOnMonday(dom) ==
    << startOfWeek(startOfDay(dom[1])), startOfWeek(startOfDay(dom[2])) >>

roundDomainToWeeks(dom) ==
    << startOfWeek(startOfDay(dom[1])), endOfWeek(startOfDay(dom[2])) >>

RECURSIVE MinStart(_, _, _)
MinStart(ts, i, min) ==
    IF i > Len(ts) THEN min
    ELSE MinStart(ts, i + 1, IF ts[i].start < min THEN ts[i].start ELSE min)

RECURSIVE MaxEnd(_, _, _)
MaxEnd(ts, i, max) ==
    IF i > Len(ts) THEN max
    ELSE MaxEnd(ts, i + 1, IF ts[i].end > max THEN ts[i].end ELSE max)

\* [min start - padding, max end + padding]; for no tasks, 7 days each side of now.
\* A fit without the padding around the tasks.
PaddedDomainUnpadded(ts, now, paddingDays) ==
    IF Len(ts) = 0
    THEN << addDays(now, -EMPTY_WINDOW_DAYS), addDays(now, EMPTY_WINDOW_DAYS) >>
    ELSE << MinStart(ts, 1, ts[1].start), MaxEnd(ts, 1, ts[1].end) >>

PaddedDomain(ts, now, paddingDays) ==
    IF Len(ts) = 0
    THEN << addDays(now, -EMPTY_WINDOW_DAYS), addDays(now, EMPTY_WINDOW_DAYS) >>
    ELSE << addDays(MinStart(ts, 1, ts[1].start), -paddingDays),
            addDays(MaxEnd(ts, 1, ts[1].end), paddingDays) >>

\* utils/time.js: the window is rounded to whole weeks, and "today" is
\* the start of the current day.
fitDomainToTasksRounded(ts, now) ==
    roundDomainToWeeks(PaddedDomain(ts, startOfDay(now), DEFAULT_PADDING_DAYS))

\* The earlier utils/time.js: no rounding, and "today" is the current instant.
fitDomainToTasksUnrounded(ts, now) ==
    PaddedDomain(ts, now, DEFAULT_PADDING_DAYS)

fitDomainToTasks(v, ts, now) ==
    IF v = "weekly" THEN fitDomainToTasksRounded(ts, now)
    ELSE fitDomainToTasksUnrounded(ts, now)

RECURSIVE WeeklyTicksFrom(_, _)
WeeklyTicksFrom(d, last) ==
    IF d <= last THEN <<d>> \o WeeklyTicksFrom(addDays(d, 7), last) ELSE <<>>

\* Ticks that stop before the week of the window's end.
buildWeeklyTicksShort(dom) ==
    WeeklyTicksFrom(startOfWeek(dom[1]), startOfWeek(dom[2]) - 1)

buildWeeklyTicks(dom) == WeeklyTicksFrom(startOfWeek(dom[1]), endOfWeek(dom[2]))

\* A scale over the width as it comes, without the floor of one pixel.
makeTimeScaleUnfloored(domainStart, domainEnd, width) ==
    [d0 |-> domainStart, d1 |-> domainEnd, W |-> width]

\* d3.scaleTime().domain([d0, d1]).range([0, max(1, width)])
makeTimeScale(domainStart, domainEnd, width) ==
    [d0 |-> domainStart, d1 |-> domainEnd, W |-> Max(1, width)]

\* scale(t) = XNum(sc, t) / XDen(sc).  d3 maps every date to the middle of the
\* range when the domain is a single instant.
XDen(sc) ==
    IF sc.d1 > sc.d0 THEN sc.d1 - sc.d0
    ELSE IF sc.d1 < sc.d0 THEN sc.d0 - sc.d1
    ELSE 2

XNum(sc, t) ==
    IF sc.d1 > sc.d0 THEN (t - sc.d0) * sc.W
    ELSE IF sc.d1 < sc.d0 THEN (sc.d0 - t) * sc.W
    ELSE sc.W

\* scale.invert(num / den), den > 0, as a Date (the fraction dropped).
ScaleInvert(sc, num, den) ==
    sc.d0 + ((num * (sc.d1 - sc.d0)) \div (den * sc.W))

(***************************************************************************)
(* utils/csv.js: a parsed CSV record and the task it becomes.              *)
(*                                                                         *)
(* A text is a sequence of one-character strings.  A date cell is          *)
(*   [k |-> "none"]              empty or absent,                          *)
(*   [k |-> "date", t |-> time]  a text one of the date formats parses,    *)
(*   [k |-> "days", n |-> n]     a plain number: days from January 1,      *)
(*   [k |-> "junk"]              anything else.                            *)
(* A week cell is a cell of the same kinds, a plain number being a number  *)
(* of weeks.                                                               *)
(***************************************************************************)
NoTask == <<>>      \* null and the empty string: both falsy

NoCell == [k |-> "none", t |-> 0, n |-> 0]

DateCell(t) == [k |-> "date", t |-> t, n |-> 0]

DaysCell(n) == [k |-> "days", t |-> 0, n |-> n]

JunkCell == [k |-> "junk", t |-> 0, n |-> 0]

NoDate == [ok |-> FALSE, t |-> 0]

SomeDate(t) == [ok |-> TRUE, t |-> t]

\* new Date(now.getFullYear(), 0, 1): unit 0 in every year the model covers.
startOfYearToday == 0

\* A Date holds no instant further than MaxDays days from the epoch (ECMAScript
\* TimeClip: 100,000,000 days); past that its time value is NaN, an Invalid
\* Date, which is an object all the same and so passes the !start tests.
MaxDays == 400

InvalidDate == MaxDays * Day + 1

isValid(t) == t # InvalidDate

TimeClip(t) ==
    IF -(MaxDays * Day) <= t /\ t <= MaxDays * Day THEN t ELSE InvalidDate

\* addDays / addWeeks on a Date that may be invalid or leave the range
addDaysClipped(t, n) == IF isValid(t) THEN TimeClip(addDays(t, n)) ELSE t

addWeeksClipped(t, n) == IF isValid(t) THEN TimeClip(addWeeks(t, n)) ELSE t

\* new Date(d.getFullYear(), d.getMonth(), d.getDate())
DateOnly(t) == IF isValid(t) THEN startOfDay(t) ELSE InvalidDate

\* The number branch returns addDays(...) without asking isValid.
tryParseDate(c) ==
    CASE c.k = "none" -> NoDate
      [] c.k = "date" -> SomeDate(c.t)
      [] c.k = "days" -> SomeDate(addDaysClipped(startOfYearToday, c.n))
      [] OTHER -> NoDate

RECURSIVE TrimStart(_)
TrimStart(txt) ==
    IF txt # <<>> /\ Head(txt) = " " THEN TrimStart(Tail(txt)) ELSE txt

RECURSIVE TrimEnd(_)
TrimEnd(txt) ==
    IF txt # <<>> /\ txt[Len(txt)] = " "
    THEN TrimEnd(SubSeq(txt, 1, Len(txt) - 1)) ELSE txt

trim(txt) == TrimEnd(TrimStart(txt))

\* parseFloat(cell || "0") || 0: the number a plain-number cell holds, 0 for
\* an absent cell and for NaN.
parseFloat(c) == IF c.k = "days" THEN c.n ELSE 0

\* toInt(v): the integer of a plain-number cell, null for any other cell.
NoInt == [ok |-> FALSE, n |-> 0]

toInt(c) == IF c.k = "days" THEN [ok |-> TRUE, n |-> c.n] ELSE NoInt

\* An integer or null as a condition: null and 0 are both falsy.
Truthy(w) == w.ok /\ w.n # 0

\* parseBaseDate(v) || startOfYearToday()
parseBaseDate(c) ==
    LET d == tryParseDate(c)
    IN  IF d.ok /\ isValid(d.t) THEN d.t ELSE startOfYearToday

\* text.split(","): the pieces between the commas, the piece being read last.
RECURSIVE SplitFrom(_, _, _)
SplitFrom(text, i, piece) ==
    IF i > Len(text) THEN << piece >>
    ELSE IF text[i] = "," THEN << piece >> \o SplitFrom(text, i + 1, <<>>)
    ELSE SplitFrom(text, i + 1, Append(piece, text[i]))

split(text) == SplitFrom(text, 1, <<>>)

\* tasks' dependencies as exported: names.join(",")
RECURSIVE join(_)
join(names) ==
    IF names = <<>> THEN <<>>
    ELSE IF Len(names) = 1 THEN names[1]
    ELSE names[1] \o << "," >> \o join(Tail(names))

\* (cell || "").split(",").map((s) => s.trim()).filter(Boolean)
Dependencies(text) ==
    LET pieces == split(text)
        trimmed == [ i \in 1 .. Len(pieces) |-> trim(pieces[i]) ]
        Boolean(piece) == piece # <<>>
    IN  SelectSeq(trimmed, Boolean)

Digits == << "1", "2", "3", "4", "5", "6", "7", "8", "9" >>

\* `t-${n}` and `${phase} ${n}` for the counters the model reaches (n < 10).
SynthId(n) == << "t", "-", Digits[n] >>

SynthName(n) == << "T", "a", "s", "k", " ", Digits[n] >>

\* One record to one task; idCounter is the counter before the record.
ParseRow(r, idCounter) ==
    LET name == IF r.Task # <<>> THEN r.Task ELSE SynthName(idCounter)
        ds == tryParseDate(r.Start)
        de == tryParseDate(r.End)
        startWeek == toInt(r.StartWeek)
        endWeek == toInt(r.EndWeek)
        durationWeeks == toInt(r.Duration)
        base == parseBaseDate(r.Base)
        useWeeks == ~ds.ok \/ ~de.ok
        byWeeks == useWeeks /\ Truthy(startWeek) /\ Truthy(endWeek)
        byDuration ==
            useWeeks /\ ~byWeeks /\ Truthy(startWeek) /\ Truthy(durationWeeks)
        s1 == IF byWeeks \/ byDuration
              THEN SomeDate(addWeeksClipped(base, startWeek.n - 1)) ELSE ds
        e1 == IF byWeeks THEN SomeDate(addWeeksClipped(base, endWeek.n))
              ELSE IF byDuration
                   THEN SomeDate(addWeeksClipped(s1.t, durationWeeks.n))
              ELSE de
        fallback == ~s1.ok \/ ~e1.ok
        s2 == IF fallback THEN startOfYearToday ELSE s1.t
        e2 == IF fallback THEN addDays(startOfYearToday, FALLBACK_DAYS) ELSE e1.t
    IN  [ id |-> IF r.id # <<>> THEN r.id ELSE SynthId(idCounter),
          name |-> name,
          start |-> DateOnly(s2),
          end |-> DateOnly(e2),
          assignee |-> r.Assignee,
          progress |-> Max(0, Min(100, parseFloat(r.Progress))),
          dependencies |-> Dependencies(r.Dependencies) ]

RECURSIVE ParseRows(_, _, _)
ParseRows(rows, i, idCounter) ==
    IF i > Len(rows) THEN <<>>
    ELSE <<ParseRow(rows[i], idCounter)>>
         \o ParseRows(rows, i + 1,
                      IF rows[i].id # <<>> THEN idCounter ELSE idCounter + 1)

parseCsvToTasks(rows) == ParseRows(rows, 1, 1)

(***************************************************************************)
(* The CSV documents the import draws from: no record, a three-day task,   *)
(* a task that ends before it starts, and a zero-day task with a later     *)
(* two-day task.  Their progress cells: a text that is no number, a        *)
(* negative number, no cell, and a number above 100.  The task that ends   *)
(* before it starts has no name cell; the others are named.                *)
(***************************************************************************)
Row(id, name, start, end, sw, ew, dur, prog) ==
    [ id |-> id, Task |-> name, Start |-> start, End |-> end,
      StartWeek |-> sw, EndWeek |-> ew, Duration |-> dur, Base |-> NoCell,
      Assignee |-> <<>>, Progress |-> DaysCell(prog), Dependencies |-> <<>> ]

RowBar ==
    [ Row(<<>>, <<"A">>, DateCell(9 * Day), DateCell(12 * Day),
          NoCell, NoCell, NoCell, 0)
        EXCEPT !.Progress = JunkCell ]

RowLate ==
    Row(<<>>, <<"B">>, DateCell(15 * Day + 1), DateCell(17 * Day),
        NoCell, NoCell, NoCell, 120)

RowMilestone ==
    [ Row(<<"m">>, <<"M">>, DateCell(10 * Day), DateCell(10 * Day),
          NoCell, NoCell, NoCell, 0)
        EXCEPT !.Progress = NoCell ]

RowReversed ==
    Row(<<>>, <<>>, DateCell(16 * Day), DateCell(9 * Day),
        NoCell, NoCell, NoCell, -5)

SampleCsvs ==
    { <<>>, <<RowBar>>, <<RowReversed>>, <<RowMilestone, RowLate>> }

(***************************************************************************)
(* exportTasksToCsv, and Papa.parse reading a text back.  A CSV text is    *)
(* its header line (the column names) and its data lines, each line a      *)
(* record from column name to cell.                                        *)
(***************************************************************************)
\* The host's offset from UTC in clock units: local time = UTC + offset.
TimeZones == { -1, 0, 1 }

\* date.toISOString().substring(0, 10): the calendar day the instant falls on
\* in UTC, written yyyy-MM-dd; a reader takes it as local midnight of that day.
toISODate(t, tz) == DateCell(Day * ((t - tz) \div Day))

ExportColumns ==
    << "id", "name", "start", "end", "assignee", "progress", "dependencies" >>

\* tasks.map((t) => ({ id, name, start, end, assignee, progress, dependencies }))
ExportRecord(t, tz) ==
    [ id |-> t.id,
      name |-> t.name,
      start |-> toISODate(t.start, tz),
      end |-> toISODate(t.end, tz),
      assignee |-> t.assignee,
      progress |-> DaysCell(t.progress),
      dependencies |-> join(t.dependencies) ]

\* Papa.unparse(rows): the keys of the first row, then one line per row.
exportTasksToCsv(ts, tz) ==
    [ fields |-> IF ts = <<>> THEN <<>> ELSE ExportColumns,
      data |-> [ i \in 1 .. Len(ts) |-> ExportRecord(ts[i], tz) ] ]

\* r[a] || r[b] || ...: the first of the named columns that the record has
\* with a cell in it.
RECURSIVE Column(_, _, _)
Column(r, names, absent) ==
    IF names = <<>> THEN absent
    ELSE IF Head(names) \in DOMAIN r /\ r[Head(names)] # absent
         THEN r[Head(names)]
         ELSE Column(r, Tail(names), absent)

\* The cells parseCsvToTasks reads from a record of Papa.parse(header: true).
ReadRecord(r) ==
    [ id |-> Column(r, << "id", "ID" >>, <<>>),
      Task |-> Column(r, << "Task", "Sprint", "Name", "Task Name" >>, <<>>),
      Start |-> Column(r, << "Start", "Start Date" >>, NoCell),
      End |-> Column(r, << "End", "End Date" >>, NoCell),
      StartWeek |->
          Column(r, << "Start Week", "StartWeek", "Start_Week" >>, NoCell),
      EndWeek |-> Column(r, << "End Week", "EndWeek", "End_Week" >>, NoCell),
      Duration |->
          Column(r, << "Duration (Weeks)", "Duration", "Weeks" >>, NoCell),
      Base |-> Column(r, << "Base", "Base Date" >>, NoCell),
      Assignee |-> Column(r, << "Assignee", "Owner", "Assignee/Owner" >>, <<>>),
      Progress |-> Column(r, << "Progress", "% Complete" >>, NoCell),
      Dependencies |-> Column(r, << "Dependencies", "Dependency" >>, <<>>) ]

\* A line with nothing on it.
EmptyLine == <<>>

\* Papa.parse(csvText, { header: true, skipEmptyLines: true }).data
PapaParse(csv) ==
    LET NotEmpty(line) == DOMAIN line # {} IN SelectSeq(csv.data, NotEmpty)

\* parseCsvToTasks(csvText) for a text given by its lines.
parseCsvText(csv) ==
    LET rows == PapaParse(csv)
    IN  parseCsvToTasks([ i \in 1 .. Len(rows) |-> ReadRecord(rows[i]) ])

(***************************************************************************)
(* State.                                                                  *)
(***************************************************************************)
VARIABLES
    variant,         \* which chart is built: "weekly" (GanttChart.js with the
                     \* week-rounded utils/time.js) or "daily" (the day-column
                     \* chart with the unrounded fitDomainToTasks)
    tasks,           \* App: useState([]) -- the task list
    externalDomain,  \* App: the domain window handed to the chart; NoDomain
                     \* for a shell that hands none
    internalDomain,  \* GanttChart: useState(fitDomainToTasks(tasks))
    dragState,       \* GanttChart: useRef({type, taskId, offsetPx})
    listeners,       \* the window's drag listeners, one entry per render whose
                     \* onMouseMove / onMouseUp closures are registered
    editingId,       \* GanttChart: useState(null)
    tempName,        \* GanttChart: useState("")
    last,            \* the event handled last and what its handler computed
    emitted,         \* the lists the last event passed to onTasksChange, in order
    grab,            \* what the pointer-downs of the running drag saw: the task
                     \* of a session that a later pointer-down replaced, the
                     \* grabbed task's length in calendar days, and whether
                     \* only pointer events edited the task list since the
                     \* drag began
    used,            \* the gestures counted against MaxGestures so far
    capture,         \* App: the promise of domtoimage.toPng that
                     \* handleDownloadPng awaits: "none" or "pending"
    call             \* the call of a utility that the last step made for the
                     \* outside: its name, its arguments and what it returned
                     \* (NoCall after every other step)

vars == << variant, tasks, externalDomain, internalDomain, dragState, listeners,
           editingId, tempName, last, emitted, grab, used, capture, call >>

\* The state of App and GanttChart.
appVars == << variant, tasks, externalDomain, internalDomain, dragState, listeners,
              editingId, tempName, last, emitted, grab, used, capture >>

NoCall == [fn |-> "none", args |-> <<>>, ret |-> <<>>]

Call(fn, args, ret) == [fn |-> fn, args |-> args, ret |-> ret]

NoDomain == <<>>

NoGrab == [superseded |-> <<>>, duration |-> 0, pointerOnly |-> TRUE]

\* The record after an edit of the task list that no pointer event made.
OtherEdit(g, state) ==
    [g EXCEPT !.pointerOnly = g.pointerOnly /\ state.taskId = <<>>]

MountNow == 10 * Day + 1                \* the clock when App mounts

Nows == { MountNow, 12 * Day }          \* what the clock may read later

\* fitDomainToTasks reads the clock only for an empty task list.
ClockReads(ts) == IF Len(ts) = 0 THEN Nows ELSE { 0 }

PointerXs == { 283, 300, 318, 362, 414, 520, 646, 800 }   \* e.clientX

\* svgRef.current.getBoundingClientRect().left: the chart follows the left column.
SvgLeft == LEFT_COL_WIDTH

TypedTexts == { << " " >>, << "Z", " " >> }

IdleDrag == [type |-> "none", taskId |-> NoTask, offNum |-> 0, offDen |-> 1]

\* op: "mount", "fit" (import, zoom to fit), "zoom" (in, out), "mousedown",
\* "mousemove", "mouseup", "commit" (Enter, blur) or "ui" (anything else);
\* date: the snapped date of the last list a mousemove emitted; fired: the
\* onMouseUp listeners a mouseup ran.
Event(op) == [op |-> op, date |-> 0, fired |-> 0]

(***************************************************************************)
(* What one render of the chart computes from its props and state.         *)
(***************************************************************************)
Domain == IF externalDomain # NoDomain THEN externalDomain ELSE internalDomain

roundedDomain(dom) == roundDomainToWeeks(dom)

\* A canvas as wide as the viewport, whatever the number of weeks.
virtualTimelineWidthOfViewport(dom) ==
    Max(LEFT_COL_WIDTH, DEFAULT_CONTAINER_WIDTH - LEFT_COL_WIDTH)

virtualTimelineWidth(dom) ==
    Max(1, Len(buildWeeklyTicks(roundedDomain(dom)))) * WEEK_COL_WIDTH

timelineWidth == Max(LEFT_COL_WIDTH, DEFAULT_CONTAINER_WIDTH - LEFT_COL_WIDTH)

xScale(v, dom) ==
    IF v = "weekly"
    THEN makeTimeScale(roundedDomain(dom)[1], roundedDomain(dom)[2],
                       virtualTimelineWidth(dom))
    ELSE makeTimeScale(dom[1], dom[2], timelineWidth)

\* The closures of the current render: the tasks and the scale they capture.
Closure(v, ts, dom) ==
    [current |-> TRUE, tasks |-> ts, scale |-> xScale(v, dom),
     move |-> TRUE, up |-> TRUE]

\* After a render the registered closures are those of an older render.
Rerendered(ls) == [i \in DOMAIN ls |-> [ls[i] EXCEPT !.current = FALSE]]

isMilestone(t) == differenceInCalendarDays(t.end, t.start) <= 0

\* Where the pointer must be for a pointer-down to reach the handler of `edge`:
\* inside the svg, over the bar (or the diamond of a milestone), a handle
\* covering the bar where they overlap and the right handle covering the left.
\* px is the pointer's offset from the svg's left edge, in whole pixels.
PointerOver(v, sc, t, edge, px) ==
    LET den == XDen(sc)
        rel == px * den - XNum(sc, t.start)
        w == Max(MIN_BAR_WIDTH * den, XNum(sc, t.end) - XNum(sc, t.start))
        inLeft == -HANDLE_HALF_WIDTH * den <= rel /\ rel <= HANDLE_HALF_WIDTH * den
        inRight == w - HANDLE_HALF_WIDTH * den <= rel
                   /\ rel <= w + HANDLE_HALF_WIDTH * den
        inBar == 0 <= rel /\ rel <= w
    IN  /\ 0 <= px /\ px <= sc.W
        /\ IF v = "weekly" /\ isMilestone(t)
           THEN /\ edge = "move"
                /\ -MILESTONE_RADIUS * den <= rel /\ rel <= MILESTONE_RADIUS * den
           ELSE CASE edge = "right" -> inRight
                  [] edge = "left" -> inLeft /\ ~inRight
                  [] OTHER -> inBar /\ ~inLeft /\ ~inRight

ROW_HEIGHT(v) == IF v = "weekly" THEN 44 ELSE 40

BAR_HEIGHT(v) == IF v = "weekly" THEN 20 ELSE 22

\* The branch `if (isMilestone)` of the weekly chart; the daily chart has no
\* such branch and draws a bar for every task.
DrawnAsMilestone(v, t) == v = "weekly" /\ isMilestone(t)

\* What tasks.map((t, idx) => ...) draws for the task at position i (idx =
\* i - 1): a group translated to (x, y), holding the diamond of a milestone
\* or a bar of width w with its progress rectangle.  Horizontal lengths are
\* numerators over XDen(sc), the progress width over 100 * XDen(sc).
Glyph(v, sc, ts, i) ==
    LET t == ts[i]
        w == Max(MIN_BAR_WIDTH * XDen(sc), XNum(sc, t.end) - XNum(sc, t.start))
    IN  [ kind |-> IF DrawnAsMilestone(v, t) THEN "milestone" ELSE "bar",
          xNum |-> XNum(sc, t.start),
          y |-> (i - 1) * ROW_HEIGHT(v) + (ROW_HEIGHT(v) - BAR_HEIGHT(v)) \div 2,
          wNum |-> w,
          progressNum |-> Max(0, Min(100, t.progress)) * w ]

(***************************************************************************)
(* GanttChart.js: the drag engine.                                         *)
(***************************************************************************)
RECURSIVE FindFrom(_, _, _)
FindFrom(ts, id, i) ==
    IF i > Len(ts) THEN 0
    ELSE IF ts[i].id = id THEN i
    ELSE FindFrom(ts, id, i + 1)

\* tasks.find((t) => t.id === id): the index of the first match, 0 for none.
FindTask(ts, id) == FindFrom(ts, id, 1)

\* { ...t, ...patch }: the fields of patch over those of t.
SpreadWithoutProgress(t, patch) ==
    [f \in DOMAIN t \cup DOMAIN patch |->
        IF f \in DOMAIN patch THEN patch[f]
        ELSE IF f = "progress" THEN 0 ELSE t[f]]

Spread(t, patch) ==
    [f \in DOMAIN t \cup DOMAIN patch |-> IF f \in DOMAIN patch THEN patch[f] ELSE t[f]]

\* tasks.map((t) => (t.id === id ? { ...t, ...updater(t) } : t)), patch being
\* the object the updater returns.
updateTask(ts, id, patch) ==
    [i \in DOMAIN ts |-> IF ts[i].id = id THEN Spread(ts[i], patch) ELSE ts[i]]

\* state.offsetPx = e.clientX - xScale(grabbed edge), over the denominator XDen.
GrabOffsetNum(sc, task, edge, clientX) ==
    clientX * XDen(sc) - XNum(sc, IF edge = "right" THEN task.end ELSE task.start)

\* startOfDay(xScale.invert(clamp(px - offsetPx, 0, width))), px = clientX - left.
DateAtCursor(sc, state, clientX) ==
    LET px == clientX - SvgLeft
        raw == px * state.offDen - state.offNum
        pxClamped == Max(0, Min(sc.W * state.offDen, raw))
    IN  startOfDay(ScaleInvert(sc, pxClamped, state.offDen))

\* A move that keeps the raw length, without the floor of one day.
MoveDatesRawDuration(task, dateAtCursor) ==
    << dateAtCursor,
       addDays(dateAtCursor, differenceInCalendarDays(task.end, task.start)) >>

MoveDates(task, dateAtCursor) ==
    LET duration == differenceInCalendarDays(task.end, task.start)
        newStart == dateAtCursor
    IN  << newStart, addDays(newStart, Max(1, duration)) >>

\* A resize of the start that takes the cursor's date as it comes.
ResizeLeftDatesUnclamped(task, dateAtCursor) == << dateAtCursor, task.end >>

ResizeLeftDates(task, dateAtCursor) ==
    << IF dateAtCursor >= task.end THEN addDays(task.end, -1) ELSE dateAtCursor,
       task.end >>

ResizeRightDates(task, dateAtCursor) ==
    << task.start,
       IF dateAtCursor <= task.start THEN addDays(task.start, 1) ELSE dateAtCursor >>

NewDates(type, task, dateAtCursor) ==
    CASE type = "move" -> MoveDates(task, dateAtCursor)
      [] type = "left" -> ResizeLeftDates(task, dateAtCursor)
      [] OTHER -> ResizeRightDates(task, dateAtCursor)

\* One registered onMouseMove: the lists it passes to onTasksChange (none or
\* one), each with the snapped date it was computed from.  c is the closure's
\* render: its tasks and its scale.
onMouseMove(c, state, clientX) ==
    IF state.taskId = NoTask \/ ~c.move THEN <<>>
    ELSE LET i == FindTask(c.tasks, state.taskId)
         IN  IF i = 0 \/ state.type \notin {"move", "left", "right"} THEN <<>>
             ELSE LET task == c.tasks[i]
                      date == DateAtCursor(c.scale, state, clientX)
                      dates == NewDates(state.type, task, date)
                  IN  << [next |-> updateTask(c.tasks, task.id,
                                              [start |-> dates[1], end |-> dates[2]]),
                          date |-> date] >>

\* The window dispatches one mousemove to every registered listener, in the
\* order of registration.
RECURSIVE DispatchMove(_, _, _, _)
DispatchMove(ls, i, state, clientX) ==
    IF i > Len(ls) THEN <<>>
    ELSE onMouseMove(ls[i], state, clientX) \o DispatchMove(ls, i + 1, state, clientX)

\* onMouseUp of one render, registered { once: true }: it removes that render's
\* onMouseMove, and the window drops the once-listener itself.
\* An onMouseUp that forgets to remove its render's onMouseMove.
onMouseUpKeepsMove(c) == IF c.up THEN [c EXCEPT !.up = FALSE] ELSE c

onMouseUp(c) ==
    IF c.up THEN [c EXCEPT !.move = FALSE, !.up = FALSE] ELSE c

IsRegistered(c) == c.move \/ c.up

DispatchUp(ls) == SelectSeq([i \in DOMAIN ls |-> onMouseUp(ls[i])], IsRegistered)

\* addEventListener of the current render's onMouseMove and onMouseUp: a
\* listener already registered is not registered twice.
AddListeners(ls, c) ==
    IF \E i \in DOMAIN ls : ls[i].current
    THEN [i \in DOMAIN ls |->
            IF ls[i].current THEN [ls[i] EXCEPT !.move = TRUE, !.up = TRUE]
            ELSE ls[i]]
    ELSE Append(ls, c)

Seqs(es) == [i \in DOMAIN es |-> es[i].next]

\* The effect without its guard: it refits and reports the window to the shell
\* on every change of the task list, as the read-only chart does.
DomainEffectUnguarded(v, ext, int, ts, now) ==
    << IF ext = NoDomain THEN NoDomain ELSE fitDomainToTasks(v, ts, now),
       fitDomainToTasks(v, ts, now) >>

\* The chart's effect on [tasks]: without an external domain it refits its own
\* window (and tells a shell that listens; the shell that hands no domain keeps
\* none).  The pair is << externalDomain, internalDomain >> after the effect.
DomainEffect(v, ext, int, ts, now) ==
    IF ext = NoDomain THEN << NoDomain, fitDomainToTasks(v, ts, now) >>
    ELSE << ext, int >>

\* A pointer-up that clears the type of the drag and keeps its task.
DragAfterUpKeepsTask(state) == [state EXCEPT !.type = "none"]

\* onMouseUp: dragState.current = { type: null, taskId: null, offsetMs: 0 }
DragAfterUp(state) == [type |-> "none", taskId |-> NoTask, offNum |-> 0, offDen |-> 1]

(***************************************************************************)
(* Inline name editing.                                                    *)
(***************************************************************************)
\* commitName(task): the list it passes to onTasksChange, if any.
commitNameUntrimmed(ts, task, temp) ==
    LET name == temp
    IN  IF name # <<>> /\ name # task.name
        THEN << updateTask(ts, task.id, [name |-> name]) >>
        ELSE <<>>

\* A commit that takes an empty text for a name.
commitNameUnguarded(ts, task, temp) ==
    LET name == trim(temp)
    IN  IF name # task.name
        THEN << updateTask(ts, task.id, [name |-> name]) >>
        ELSE <<>>

commitName(ts, task, temp) ==
    LET name == trim(temp)
    IN  IF name # <<>> /\ name # task.name
        THEN << updateTask(ts, task.id, [name |-> name]) >>
        ELSE <<>>

(***************************************************************************)
(* Initial state: App mounts with no tasks and the window fitted to none.  *)
(***************************************************************************)
Init ==
    /\ variant \in {"weekly", "daily"}
    /\ tasks = <<>>
    /\ internalDomain = fitDomainToTasks(variant, <<>>, MountNow)
    /\ externalDomain \in { internalDomain, NoDomain }
    /\ dragState = IdleDrag
    /\ listeners = <<>>
    /\ editingId = NoTask
    /\ tempName = <<>>
    /\ last = Event("mount")
    /\ emitted = <<>>
    /\ grab = NoGrab
    /\ used = 0
    /\ capture = "none"
    /\ call = NoCall

(***************************************************************************)
(* App.js handlers.                                                        *)
(***************************************************************************)
handleImportCsv(rows, now) ==
    LET t == parseCsvToTasks(rows)
    IN  /\ tasks' = t
        /\ LET doms == DomainEffect(variant,
                                    IF externalDomain # NoDomain
                                    THEN fitDomainToTasks(variant, t, now)
                                    ELSE NoDomain,
                                    internalDomain, t, now)
           IN  externalDomain' = doms[1] /\ internalDomain' = doms[2]
        /\ listeners' = Rerendered(listeners)
        /\ last' = Event("fit")
        /\ emitted' = <<>>
        /\ grab' = OtherEdit(grab, dragState)
        /\ call' = NoCall
        /\ UNCHANGED capture
        /\ UNCHANGED << variant, dragState, editingId, tempName, used >>

Zoom(fNum, fDen) ==
    /\ externalDomain # NoDomain
    /\ used < MaxGestures
    /\ externalDomain' = zoomDomain(externalDomain, fNum, fDen)
    /\ used' = used + 1
    /\ listeners' = Rerendered(listeners)
    /\ last' = Event("zoom")
    /\ emitted' = <<>>
    /\ call' = NoCall
    /\ UNCHANGED capture
    /\ UNCHANGED << variant, tasks, internalDomain, dragState, editingId,
                    tempName, grab >>

handleZoomIn == Zoom(3, 2)        \* zoomDomain(prev, 1.5)

handleZoomOut == Zoom(3, 4)      \* zoomDomain(prev, 0.75)

handleZoomToFit(now) ==
    /\ externalDomain # NoDomain
    /\ externalDomain' = fitDomainToTasks(variant, tasks, now)
    /\ listeners' = Rerendered(listeners)
    /\ last' = Event("fit")
    /\ emitted' = <<>>
    /\ call' = NoCall
    /\ UNCHANGED capture
    /\ UNCHANGED << variant, tasks, internalDomain, dragState, editingId,
                    tempName, grab, used >>

\* toggleTheme: App renders again, and the chart with it.
toggleTheme ==
    /\ used < MaxGestures
    /\ used' = used + 1
    /\ listeners' = Rerendered(listeners)
    /\ last' = Event("ui")
    /\ emitted' = <<>>
    /\ call' = NoCall
    /\ UNCHANGED capture
    /\ UNCHANGED << variant, tasks, externalDomain, internalDomain, dragState,
                    editingId, tempName, grab >>

(***************************************************************************)
(* GanttChart.js handlers.                                                 *)
(***************************************************************************)
onMouseDownBar(i, edge, clientX) ==
    /\ i \in DOMAIN tasks
    /\ used < MaxGestures
    /\ PointerOver(variant, xScale(variant, Domain), tasks[i], edge, clientX - SvgLeft)
    /\ dragState' = [type |-> edge, taskId |-> tasks[i].id,
                     offNum |-> GrabOffsetNum(xScale(variant, Domain), tasks[i],
                                              edge, clientX),
                     offDen |-> XDen(xScale(variant, Domain))]
    /\ listeners' = AddListeners(listeners, Closure(variant, tasks, Domain))
    /\ grab' = [superseded |-> IF dragState.taskId \notin {NoTask, tasks[i].id}
                                THEN dragState.taskId ELSE grab.superseded,
                duration |-> differenceInCalendarDays(tasks[i].end, tasks[i].start),
                pointerOnly |-> grab.pointerOnly]
    /\ used' = used + 1
    /\ last' = Event("mousedown")
    /\ emitted' = <<>>
    /\ call' = NoCall
    /\ UNCHANGED capture
    /\ UNCHANGED << variant, tasks, externalDomain, internalDomain, editingId,
                    tempName >>

\* A mousemove on the window: every registered onMouseMove runs; the last list
\* passed to onTasksChange is the task list of the next render.
WindowMouseMove(clientX) ==
    LET es == DispatchMove(listeners, 1, dragState, clientX)
    IN  /\ emitted' = Seqs(es)
        /\ last' = [op |-> "mousemove",
                    date |-> IF es = <<>> THEN 0 ELSE es[Len(es)].date,
                    fired |-> 0]
        /\ IF es = <<>>
           THEN UNCHANGED << tasks, externalDomain, internalDomain, listeners >>
           ELSE /\ tasks' = es[Len(es)].next
                /\ LET doms == DomainEffect(variant, externalDomain,
                                            internalDomain, es[Len(es)].next, 0)
                   IN  externalDomain' = doms[1] /\ internalDomain' = doms[2]
                /\ listeners' = Rerendered(listeners)
        /\ call' = NoCall
        /\ UNCHANGED capture
        /\ UNCHANGED << variant, dragState, editingId, tempName, grab, used >>

\* A mouseup on the window: every registered onMouseUp runs (with none
\* registered no code of the program runs, and the model takes no step).
WindowMouseUp ==
    /\ listeners # <<>>
    /\ dragState' = IF \E i \in DOMAIN listeners : listeners[i].up
                    THEN DragAfterUp(dragState) ELSE dragState
    /\ listeners' = DispatchUp(listeners)
    /\ grab' = NoGrab
    /\ last' = [op |-> "mouseup", date |-> 0, fired |-> Len(listeners)]
    /\ emitted' = <<>>
    /\ call' = NoCall
    /\ UNCHANGED capture
    /\ UNCHANGED << variant, tasks, externalDomain, internalDomain, editingId,
                    tempName, used >>

handleNameDblClick(i) ==
    /\ i \in DOMAIN tasks
    /\ editingId # tasks[i].id
    /\ used < MaxGestures
    /\ editingId' = tasks[i].id
    /\ tempName' = tasks[i].name
    /\ used' = used + 1
    /\ listeners' = Rerendered(listeners)
    /\ last' = Event("ui")
    /\ emitted' = <<>>
    /\ call' = NoCall
    /\ UNCHANGED capture
    /\ UNCHANGED << variant, tasks, externalDomain, internalDomain, dragState, grab >>

\* onChange of the inline input, shown for the row being edited.
onNameChange(txt) ==
    /\ FindTask(tasks, editingId) # 0
    /\ tempName # txt
    /\ tempName' = txt
    /\ listeners' = Rerendered(listeners)
    /\ last' = Event("ui")
    /\ emitted' = <<>>
    /\ call' = NoCall
    /\ UNCHANGED capture
    /\ UNCHANGED << variant, tasks, externalDomain, internalDomain, dragState,
                    editingId, grab, used >>

\* Enter, or the input losing focus: commitName of the row being edited.
CommitName ==
    /\ FindTask(tasks, editingId) # 0
    /\ LET es == commitName(tasks, tasks[FindTask(tasks, editingId)], tempName)
       IN  /\ emitted' = es
           /\ tasks' = IF es = <<>> THEN tasks ELSE es[1]
           /\ LET doms == IF es = <<>> THEN << externalDomain, internalDomain >>
                           ELSE DomainEffect(variant, externalDomain,
                                             internalDomain, es[1], 0)
              IN  externalDomain' = doms[1] /\ internalDomain' = doms[2]
    /\ editingId' = NoTask
    /\ listeners' = Rerendered(listeners)
    /\ last' = Event("commit")
    /\ grab' = IF commitName(tasks, tasks[FindTask(tasks, editingId)], tempName) = <<>>
               THEN grab ELSE OtherEdit(grab, dragState)
    /\ call' = NoCall
    /\ UNCHANGED capture
    /\ UNCHANGED << variant, dragState, tempName, used >>

onNameEscape ==
    /\ FindTask(tasks, editingId) # 0
    /\ editingId' = NoTask
    /\ listeners' = Rerendered(listeners)
    /\ last' = Event("ui")
    /\ emitted' = <<>>
    /\ call' = NoCall
    /\ UNCHANGED capture
    /\ UNCHANGED << variant, tasks, externalDomain, internalDomain, dragState,
                    tempName, grab, used >>

\* Enter in the inline input.
onNameEnter == CommitName

\* The inline input loses focus.
onNameBlur == CommitName

\* Export CSV, by a click on the toolbar button: the pointer is up, so no
\* drag is running, and the name input has lost the focus.  The text handed
\* to the download is that of the task list of the current render; nothing
\* of the app's state changes.
handleExportCsv(tz) ==
    /\ dragState.taskId = NoTask
    /\ editingId = NoTask
    /\ call' = Call("exportTasksToCsv", << tasks, tz >>,
                    exportTasksToCsv(tasks, tz))
    /\ last' = Event("export")
    /\ emitted' = <<>>
    /\ UNCHANGED << variant, tasks, externalDomain, internalDomain, dragState,
                    listeners, editingId, tempName, grab, used, capture >>

\* The buttons the Toolbar of the interactive App renders, in every state and
\* none of them ever disabled: the text of each and the prop it calls.
Toolbar ==
    << [ text |-> "Upload CSV", onClick |-> "onImportCsv" ],
       [ text |-> "Export CSV", onClick |-> "onExportCsv" ],
       [ text |-> "Download Image", onClick |-> "onDownloadPng" ],
       [ text |-> "-", onClick |-> "onZoomOut" ],
       [ text |-> "+", onClick |-> "onZoomIn" ],
       [ text |-> "Zoom to Fit", onClick |-> "onZoomToFit" ] >>

\* Download Image, by a click on the toolbar button: the handler calls
\* domtoimage.toPng on the chart's container and awaits its promise.
handleDownloadPng ==
    /\ dragState.taskId = NoTask
    /\ editingId = NoTask
    /\ capture = "none"
    /\ used < MaxGestures
    /\ used' = used + 1
    /\ capture' = "pending"
    /\ last' = Event("png")
    /\ emitted' = <<>>
    /\ call' = Call("domtoimage.toPng", << >>, "promise")
    /\ UNCHANGED << variant, tasks, externalDomain, internalDomain, dragState,
                    listeners, editingId, tempName, grab >>

\* The promise resolves with a data URL: the handler resumes after the
\* await and clicks a download link to it.
CaptureResolves ==
    /\ capture = "pending"
    /\ capture' = "none"
    /\ last' = Event("png-resolved")
    /\ emitted' = <<>>
    /\ call' = Call("a.click", << "gantt_chart.png" >>, "download")
    /\ UNCHANGED << variant, tasks, externalDomain, internalDomain, dragState,
                    listeners, editingId, tempName, grab, used >>

CaptureRejectsAndResets ==
    /\ capture = "pending"
    /\ capture' = "none"
    /\ last' = Event("png-rejected")
    /\ emitted' = <<>>
    /\ call' = Call("unhandledrejection", << >>, "uncaught")
    /\ tasks' = <<>>
    /\ UNCHANGED << variant, externalDomain, internalDomain, dragState,
                    listeners, editingId, tempName, grab, used >>

\* The promise rejects: the await throws inside handleDownloadPng, which has
\* no try around it, so the promise the handler returned to the button's
\* onClick rejects; nothing is attached to that promise, and the rejection
\* reaches the window as an unhandledrejection event.
CaptureRejects ==
    /\ capture = "pending"
    /\ capture' = "none"
    /\ last' = Event("png-rejected")
    /\ emitted' = <<>>
    /\ call' = Call("unhandledrejection", << >>, "uncaught")
    /\ UNCHANGED << variant, tasks, externalDomain, internalDomain, dragState,
                    listeners, editingId, tempName, grab, used >>

Next ==
    \/ \E rows \in SampleCsvs :
         \E now \in ClockReads(rows) : handleImportCsv(rows, now)
    \/ \E tz \in TimeZones : handleExportCsv(tz)
    \/ handleDownloadPng
    \/ CaptureResolves
    \/ CaptureRejects
    \/ handleZoomIn
    \/ handleZoomOut
    \/ \E now \in ClockReads(tasks) : handleZoomToFit(now)
    \/ toggleTheme
    \/ \E i \in 1..2, edge \in {"move", "left", "right"}, x \in PointerXs :
         onMouseDownBar(i, edge, x)
    \/ \E x \in PointerXs : WindowMouseMove(x)
    \/ WindowMouseUp
    \/ \E i \in 1..2 : handleNameDblClick(i)
    \/ \E txt \in TypedTexts : onNameChange(txt)
    \/ onNameEnter
    \/ onNameBlur
    \/ onNameEscape

Spec == Init /\ [][Next]_vars

(***************************************************************************)
(* The utilities called on their own: the arguments are drawn from the     *)
(* sets below, and the state of the application stays as it is mounted.    *)
(***************************************************************************)
MaxInstant == 2 * Week + Day

Instants == 0 .. MaxInstant         \* the dates handed to utils/time.js

Windows == Instants \X Instants     \* [start, end], ordered or not

UtilInit == Init /\ variant = "weekly" /\ externalDomain = NoDomain

CallRoundDomainToWeeks(dom) ==
    /\ call' = Call("roundDomainToWeeks", dom, roundDomainToWeeks(dom))
    /\ UNCHANGED appVars

CallBuildWeeklyTicks(dom) ==
    /\ call' = Call("buildWeeklyTicks", dom, buildWeeklyTicks(dom))
    /\ UNCHANGED appVars

MaxZoomInstant == 20

ZoomInstants == 0 .. MaxZoomInstant

\* factor as << numerator, denominator >>: 1.5 and 0.75 (App), 2 and 0.5
Factors == { <<3, 2>>, <<3, 4>>, <<2, 1>>, <<1, 2>> }

Centers == { NoCenter, Center(0), Center(7), Center(10), Center(MaxZoomInstant) }

CallZoomDomain(dom, factor, centerDate) ==
    /\ call' = Call("zoomDomain", << dom, factor, centerDate >>,
                    zoomDomainAround(dom, factor[1], factor[2], centerDate))
    /\ UNCHANGED appVars

MaxScaleInstant == 6

ScaleInstants == 0 .. MaxScaleInstant

Widths == { -5, 0, 1, 80, 540 }

\* The scale built, applied to its domain's ends and to two dates, and
\* inverted at the pixel of the first date.  A pixel is << numerator,
\* denominator >>.
CallMakeTimeScale(domainStart, domainEnd, width, t1, t2) ==
    LET sc == makeTimeScale(domainStart, domainEnd, width)
    IN  /\ call' = Call("makeTimeScale",
                        << domainStart, domainEnd, width, t1, t2 >>,
                        [ atStart |-> << XNum(sc, domainStart), XDen(sc) >>,
                          atEnd |-> << XNum(sc, domainEnd), XDen(sc) >>,
                          at1 |-> << XNum(sc, t1), XDen(sc) >>,
                          at2 |-> << XNum(sc, t2), XDen(sc) >>,
                          back1 |-> ScaleInvert(sc, XNum(sc, t1), XDen(sc)) ])
        /\ UNCHANGED appVars

\* The columns of the texts handed to the import.
ImportColumns ==
    << "id", "Task", "Start", "End", "StartWeek", "EndWeek", "Duration",
       "Base", "Assignee", "Progress", "Dependencies" >>

CsvText(lines) == [ fields |-> ImportColumns, data |-> lines ]

\* Date cells: absent, a date with a time of day, a day number, a day number
\* past the range of Date, and a text that is neither.
DateCells ==
    { NoCell, DateCell(9 * Day + 1), DaysCell(3), DaysCell(MaxDays + 1),
      JunkCell }

\* Week cells: absent, 0, a small number, and a number of weeks past the
\* range of Date.
WeekCells == { NoCell, DaysCell(0), DaysCell(2), DaysCell(MaxDays) }

EndWeekCells == { NoCell, DaysCell(0), DaysCell(3) }

DurationCells == { NoCell, DaysCell(0), DaysCell(2), JunkCell }

BaseCells == { NoCell, DateCell(Week + Day), JunkCell }

\* Lines that differ in their date, week and base columns.
DatedLines ==
    { [ Row(<<>>, << "A" >>, start, end, sw, ew, dur, 50) EXCEPT !.Base = base ] :
        start \in DateCells, end \in DateCells, sw \in WeekCells,
        ew \in EndWeekCells, dur \in DurationCells, base \in BaseCells }

\* Lines that differ in their progress cell, with and without a name.
ProgressCells ==
    { NoCell, JunkCell, DaysCell(-5), DaysCell(0), DaysCell(50), DaysCell(100),
      DaysCell(120) }

ProgressLines ==
    { [ Row(<<>>, name, DateCell(9 * Day), DateCell(12 * Day),
            NoCell, NoCell, NoCell, 0)
          EXCEPT !.Progress = progress ] :
        name \in { <<>>, << "A" >> }, progress \in ProgressCells }

\* Lines that differ in their id cell; texts of up to three of them, with
\* no explicit id twice, and with empty lines in between.
Ids == { <<>>, << "m" >>, SynthId(1), SynthId(2) }

IdLine(id) == Row(id, <<>>, NoCell, NoCell, NoCell, NoCell, NoCell, 0)

ExplicitIdsDiffer(ids) ==
    \A i \in 1 .. Len(ids), j \in 1 .. Len(ids) :
        i < j /\ ids[i] # <<>> => ids[i] # ids[j]

IdTexts ==
    { << IdLine(ids[1]), EmptyLine, IdLine(ids[2]), IdLine(ids[3]), EmptyLine >> :
        ids \in { i \in Ids \X Ids \X Ids : ExplicitIdsDiffer(i) } }

CsvTexts ==
    { CsvText(<< line >>) : line \in DatedLines \cup ProgressLines }
        \cup { CsvText(lines) : lines \in IdTexts }
        \cup { CsvText(<<>>), CsvText(<< EmptyLine >>) }

CallParseCsvToTasks(csv) ==
    /\ call' = Call("parseCsvToTasks", csv, parseCsvText(csv))
    /\ UNCHANGED appVars

\* Task lists made of normalized fields only: what an import of dated rows
\* gives, with an assignee, a progress and dependencies.
Task(id, name, start, end, assignee, progress, dependencies) ==
    [ id |-> id, name |-> name, start |-> start, end |-> end,
      assignee |-> assignee, progress |-> progress,
      dependencies |-> dependencies ]

NormalTasks ==
    { Task(<< "a" >>, << "A" >>, 9 * Day, 12 * Day, << "x" >>, 50, <<>>),
      Task(<< "b" >>, << "B", " ", "2" >>, 10 * Day, 10 * Day, <<>>, 0,
           << << "a" >> >>),
      Task(SynthId(1), SynthName(1), 0, 7 * Day, <<>>, 100,
           << << "a" >>, << "b" >> >>) }

TaskLists ==
    { <<>> } \cup { << t >> : t \in NormalTasks }
             \cup { << t, u >> : t \in NormalTasks, u \in NormalTasks }

\* parseCsvToTasks(exportTasksToCsv(tasks)) on a host at offset tz.
CallRoundTrip(ts, tz) ==
    /\ call' = Call("roundTrip", << ts, tz >>,
                    parseCsvText(exportTasksToCsv(ts, tz)))
    /\ UNCHANGED appVars

\* One call in a behaviour: the utilities keep no state between calls.
UtilNext ==
    \/ /\ call = NoCall
       /\ \E d0 \in ScaleInstants, d1 \in ScaleInstants, width \in Widths,
             t1 \in ScaleInstants, t2 \in ScaleInstants :
            CallMakeTimeScale(d0, d1, width, t1, t2)
    \/ /\ call = NoCall
       /\ \E dom \in Windows : CallRoundDomainToWeeks(dom)
    \/ /\ call = NoCall
       /\ \E ts \in TaskLists, tz \in TimeZones : CallRoundTrip(ts, tz)
    \/ /\ call = NoCall
       /\ \E csv \in CsvTexts : CallParseCsvToTasks(csv)
    \/ /\ call = NoCall
       /\ \E dom \in Windows : CallBuildWeeklyTicks(dom)
    \/ /\ call = NoCall
       /\ \E dom \in ZoomInstants \X ZoomInstants, factor \in Factors,
             centerDate \in Centers : CallZoomDomain(dom, factor, centerDate)

UtilSpec == UtilInit /\ [][UtilNext]_vars

(***************************************************************************)
(* Properties of the drag handlers.                                        *)
(***************************************************************************)
\* The step is a pointer-move that passed a list to onTasksChange.
MoveEmits == last'.op = "mousemove" /\ emitted' # <<>>

CalendarDays(t) == differenceInCalendarDays(t.end, t.start)

\* C1: after any pointer-move that mutates a task, in every list the move
\* emitted (and so in the resulting task list) the dragged task spans at least
\* one calendar day, or it was a zero-day milestone before and still is one.
C1_DragKeepsMinDuration ==
    [][ MoveEmits =>
          \A k \in DOMAIN emitted' : \A i \in DOMAIN emitted'[k] :
             emitted'[k][i].id = dragState.taskId =>
               \/ CalendarDays(emitted'[k][i]) >= 1
               \/ /\ i \in DOMAIN tasks
                  /\ tasks[i].id = dragState.taskId
                  /\ CalendarDays(tasks[i]) = 0
                  /\ CalendarDays(emitted'[k][i]) = 0 ]_vars

\* A resize of the start was dropped at or after the task's end and the task
\* kept one day.
C1_ClampedToOneDay ==
    /\ last.op = "mousemove"
    /\ emitted # <<>>
    /\ dragState.type = "left"
    /\ \E i \in DOMAIN tasks :
          /\ tasks[i].id = dragState.taskId
          /\ last.date >= tasks[i].end
          /\ CalendarDays(tasks[i]) = 1

\* C2: on a pointer-move of a resize-end session the task's end becomes the
\* snapped date, or start + 1 day when the snapped date is on or before the
\* task's start; on a pointer-move of a resize-start session the task's start
\* becomes the snapped date, or end - 1 day when the snapped date is on or
\* after the task's end; the opposite endpoint is unchanged by the move.
C2_ResizeClamps ==
    [][ (MoveEmits /\ dragState.type \in {"left", "right"}) =>
          LET i == FindTask(tasks, dragState.taskId)
              j == FindTask(tasks', dragState.taskId)
          IN  /\ j # 0
              /\ i # 0 =>
                   IF dragState.type = "right"
                   THEN /\ tasks'[j].end =
                             IF last'.date <= tasks[i].start
                             THEN addDays(tasks[i].start, 1) ELSE last'.date
                        /\ tasks'[j].start = tasks[i].start
                   ELSE /\ tasks'[j].start =
                             IF last'.date >= tasks[i].end
                             THEN addDays(tasks[i].end, -1) ELSE last'.date
                        /\ tasks'[j].end = tasks[i].end ]_vars

SameButDates(a, b) ==
    /\ a.id = b.id
    /\ a.name = b.name
    /\ a.assignee = b.assignee
    /\ a.progress = b.progress
    /\ a.dependencies = b.dependencies

\* C4: every pointer-move of an active drag session emits a task list in which
\* only the task with the session's id is replaced: every other task of the
\* current list is in it unchanged, and the dragged task keeps its id, name,
\* assignee, progress and dependencies.
C4_MoveReplacesOnlyDragged ==
    [][ MoveEmits =>
          \A k \in DOMAIN emitted' :
             /\ Len(emitted'[k]) = Len(tasks)
             /\ \A i \in DOMAIN tasks :
                   IF tasks[i].id = dragState.taskId
                   THEN SameButDates(emitted'[k][i], tasks[i])
                   ELSE emitted'[k][i] = tasks[i] ]_vars

\* C5: a pointer-down on a bar or handle leaves a session active; a pointer-up
\* leaves none; a pointer-move received with no session active emits nothing
\* and leaves the task list as it is, so after a pointer-up no pointer-move
\* updates the list until the next pointer-down.
C5_DragLifecycle ==
    [][ /\ last'.op = "mousedown" =>
             dragState'.taskId # NoTask /\ dragState'.type \in {"move", "left", "right"}
        /\ last'.op = "mouseup" =>
             dragState'.taskId = NoTask /\ dragState'.type = "none"
        /\ (last'.op = "mousemove" /\ dragState.taskId = NoTask) =>
             emitted' = <<>> /\ tasks' = tasks
        /\ dragState'.taskId # dragState.taskId =>
             last'.op \in {"mousedown", "mouseup"} ]_vars

\* A pointer-up ended a session whose pointer-moves had edited the task list.
C5_SessionEnded ==
    /\ last.op = "mouseup"
    /\ last.fired >= 1
    /\ dragState.taskId = NoTask
    /\ \E i \in DOMAIN tasks :
          \E rows \in SampleCsvs :
             /\ Len(rows) = Len(tasks)
             /\ parseCsvToTasks(rows)[i].id = tasks[i].id
             /\ parseCsvToTasks(rows)[i].name = tasks[i].name
             /\ parseCsvToTasks(rows)[i].start # tasks[i].start

\* C6: whenever no session is active, no drag listener is registered on the
\* window, whatever pointer-downs, pointer-moves, re-renders and pointer-ups
\* came before.
C6_NoListenerLeak ==
    dragState.taskId = NoTask => listeners = <<>>

\* One pointer-up removed the listeners that pointer-downs of two different
\* renders had registered.
C6_TwoRendersCleaned ==
    /\ last.op = "mouseup"
    /\ last.fired = 2
    /\ dragState.taskId = NoTask
    /\ listeners = <<>>

\* The ids of the tasks in which two lists differ.
ChangedIds(cur, nxt) ==
    IF Len(cur) # Len(nxt)
    THEN { cur[i].id : i \in DOMAIN cur } \cup { nxt[i].id : i \in DOMAIN nxt }
    ELSE { cur[i].id : i \in { n \in DOMAIN cur : cur[n] # nxt[n] } }

\* C7: after a pointer-down on a second task replaced an active session, every
\* task list a later pointer-move emits differs from the task list current at
\* that moment in at most one task, and never in the task of the replaced
\* session (stated for drags in which nothing but pointer events edited the
\* task list, so that no other edit accounts for a difference).
C7_SupersededSessionIsOver ==
    [][ (MoveEmits /\ grab.superseded # NoTask /\ grab.pointerOnly) =>
          \A k \in DOMAIN emitted' :
             /\ Cardinality(ChangedIds(tasks, emitted'[k])) <= 1
             /\ grab.superseded # dragState.taskId =>
                  grab.superseded \notin ChangedIds(tasks, emitted'[k]) ]_vars

(***************************************************************************)
(* Properties of the domain window.                                        *)
(***************************************************************************)
\* C8: while the shell pins a domain window, the task-list edits of drag
\* pointer-moves and of name commits leave it unchanged, and it changes only
\* through CSV import, zoom in, zoom out or zoom-to-fit; without a pinned
\* window the chart's window is refitted to the tasks whenever the task list
\* changes.
C8_PinnedWindowKeptByEdits ==
    [][ /\ (externalDomain # NoDomain /\ last'.op \in {"mousemove", "commit"}) =>
             externalDomain' = externalDomain
        /\ (externalDomain # NoDomain /\ externalDomain' # externalDomain) =>
             last'.op \in {"fit", "zoom"}
        /\ (externalDomain = NoDomain /\ tasks' # tasks) =>
             /\ externalDomain' = NoDomain
             /\ \E now \in Nows :
                   internalDomain' = fitDomainToTasks(variant, tasks', now) ]_vars

\* A pointer-move edited a task under a pinned window that a refit would have
\* changed.
C8_EditedUnderPinnedWindow ==
    /\ externalDomain # NoDomain
    /\ last.op = "mousemove"
    /\ emitted # <<>>
    /\ externalDomain # fitDomainToTasks(variant, tasks, 0)

\* C9: in every reachable state the domain window the chart lays out has
\* start <= end.
C9_DomainOrdered == Domain[1] <= Domain[2]

Least(S) == CHOOSE m \in S : \A x \in S : m <= x

Greatest(S) == CHOOSE m \in S : \A x \in S : m >= x

\* The tasks' extent with two days on either side.
PaddedExtent(ts) ==
    << Least({ ts[i].start : i \in DOMAIN ts }) - 2 * Day,
       Greatest({ ts[i].end : i \in DOMAIN ts }) + 2 * Day >>

\* The window is the whole weeks (Monday 00:00 up to the last instant of a
\* Sunday) around lo and hi, and no week more.
WholeWeeksAround(dom, lo, hi) ==
    /\ dom[1] % Week = 0
    /\ dom[1] <= lo /\ lo - dom[1] < Week
    /\ (dom[2] + 1) % Week = 0
    /\ dom[2] >= hi /\ dom[2] - hi < Week

\* C10 as claimed: a fit returns exactly [min start - 2 days, max end + 2 days],
\* and for an empty task list [today - 7 days, today + 7 days], today being
\* the clock's reading or its midnight.
C10_FitIsPaddedExtent ==
    last.op \in {"mount", "fit"} =>
       IF tasks # <<>>
       THEN Domain = PaddedExtent(tasks)
       ELSE \E now \in Nows : \E today \in {now, startOfDay(now)} :
               Domain = << today - 7 * Day, today + 7 * Day >>

\* C10: the fit of the chart on the unrounded utility returns exactly
\* [min start - 2 days, max end + 2 days], and for no task [now - 7 days,
\* now + 7 days]; the fit of utils/time.js returns that window (taken around
\* the midnight of today for no task) widened to whole Monday-start weeks.
C10_FitIsPaddedExtentInWholeWeeks ==
    last.op \in {"mount", "fit"} =>
       IF variant = "daily"
       THEN IF tasks # <<>>
            THEN Domain = PaddedExtent(tasks)
            ELSE \E now \in Nows : Domain = << now - 7 * Day, now + 7 * Day >>
       ELSE IF tasks # <<>>
            THEN WholeWeeksAround(Domain, PaddedExtent(tasks)[1],
                                  PaddedExtent(tasks)[2])
            ELSE \E now \in Nows :
                    WholeWeeksAround(Domain, startOfDay(now) - 7 * Day,
                                     startOfDay(now) + 7 * Day)

\* The week-rounded fit of a task list returned a window wider than the padded
\* extent of its tasks.
C10_FitWidenedToWeeks ==
    /\ last.op = "fit"
    /\ variant = "weekly"
    /\ tasks # <<>>
    /\ Domain[1] <= PaddedExtent(tasks)[1]
    /\ Domain[2] > PaddedExtent(tasks)[2]

(***************************************************************************)
(* Properties of utils/time.js.                                            *)
(***************************************************************************)
DayOf(t) == t \div Day

\* Day 0 is a Monday, so a day whose number is 6 modulo 7 is a Sunday.
IsMonday(d) == d % 7 = 0

IsSunday(d) == d % 7 = 6

\* C11: roundDomainToWeeks([start, end]) returns the Monday (its midnight) on
\* or before start and the Sunday (its last instant) on or after end, each
\* within the week of its argument, and the result contains [start, end].
C11_RoundsToMondayAndSunday ==
    call.fn = "roundDomainToWeeks" =>
       LET start == call.args[1]
           end == call.args[2]
       IN  /\ call.ret[1] = DayOf(call.ret[1]) * Day
           /\ IsMonday(DayOf(call.ret[1]))
           /\ DayOf(call.ret[1]) <= DayOf(start)
           /\ DayOf(start) - DayOf(call.ret[1]) <= 6
           /\ call.ret[2] = (DayOf(call.ret[2]) + 1) * Day - 1
           /\ IsSunday(DayOf(call.ret[2]))
           /\ DayOf(call.ret[2]) >= DayOf(end)
           /\ DayOf(call.ret[2]) - DayOf(end) <= 6
           /\ call.ret[1] <= start /\ end <= call.ret[2]

\* The window [Wed, Wed] of the second week came back as the Monday before
\* and the Sunday after.
C11_WednesdayRounded ==
    /\ call.fn = "roundDomainToWeeks"
    /\ call.args = << 9 * Day, 9 * Day >>
    /\ call.ret = << 7 * Day, 14 * Day - 1 >>

\* C12: buildWeeklyTicks([start, end]) returns, in increasing order and each
\* once, exactly the Mondays from the Monday of start's week through the
\* Monday of end's week, and nothing when end's week precedes start's week.
C12_WeeklyTicksAreTheMondays ==
    call.fn = "buildWeeklyTicks" =>
       LET firstWeek == call.args[1] \div Week
           lastWeek == call.args[2] \div Week
           ticks == call.ret
       IN  /\ Len(ticks) = IF lastWeek < firstWeek THEN 0
                           ELSE lastWeek - firstWeek + 1
           /\ \A i \in DOMAIN ticks : ticks[i] = (firstWeek + i - 1) * Week
           /\ \A i \in DOMAIN ticks : IsMonday(DayOf(ticks[i]))
           /\ \A i, j \in DOMAIN ticks : i < j => ticks[i] < ticks[j]

\* A window from a Thursday to the Tuesday twelve days later gave the three
\* Mondays of its weeks.
C12_ThreeMondays ==
    /\ call.fn = "buildWeeklyTicks"
    /\ call.args = << 3 * Day + 1, 15 * Day >>
    /\ call.ret = << 0, Week, 2 * Week >>

Abs(x) == IF x < 0 THEN -x ELSE x

\* What C13 says of every call, but for the two containments: the duration is
\* (end - start)/factor and the window is centred on the centre, both within
\* the two clock units that dropping the fractions of two dates can cost, and
\* start <= end is preserved.
ZoomScalesAroundCentre ==
    LET start == call.args[1][1]
        end == call.args[1][2]
        fNum == call.args[2][1]
        fDen == call.args[2][2]
        centre2 == IF call.args[3].given THEN 2 * call.args[3].t ELSE start + end
    IN  start <= end =>
          /\ Abs((call.ret[2] - call.ret[1]) * fNum - (end - start) * fDen) < 2 * fNum
          /\ Abs(call.ret[1] + call.ret[2] - centre2) < 2
          /\ call.ret[1] <= call.ret[2]

ZoomedInside == call.args[1][1] <= call.ret[1] /\ call.ret[2] <= call.args[1][2]

ZoomedAround == call.ret[1] <= call.args[1][1] /\ call.args[1][2] <= call.ret[2]

\* C13 as claimed: zoomDomain returns a window of duration (end - start)/factor
\* centred on the centre, or on the midpoint when none is given; factor > 1
\* yields a window contained in the original and 0 < factor < 1 one that
\* contains it; start <= end is preserved.
C13_ZoomContainsOrIsContained ==
    (call.fn = "zoomDomain" /\ call.args[1][1] <= call.args[1][2]) =>
       /\ ZoomScalesAroundCentre
       /\ call.args[2][1] > call.args[2][2] => ZoomedInside
       /\ call.args[2][1] < call.args[2][2] => ZoomedAround

\* C13: zoomDomain returns a window of duration (end - start)/factor centred on
\* the centre, or on the midpoint when none is given, and preserves
\* start <= end; when no centre is given, factor > 1 yields a window contained
\* in the original and 0 < factor < 1 one that contains it.
C13_ZoomAroundMidpointContains ==
    (call.fn = "zoomDomain" /\ call.args[1][1] <= call.args[1][2]) =>
       /\ ZoomScalesAroundCentre
       /\ (~call.args[3].given /\ call.args[2][1] > call.args[2][2]) => ZoomedInside
       /\ (~call.args[3].given /\ call.args[2][1] < call.args[2][2]) => ZoomedAround

\* Zooming [6, 18] in by 1.5 with no centre gave [8, 16].
C13_ZoomedInAroundMidpoint ==
    /\ call.fn = "zoomDomain"
    /\ call.args = << <<6, 18>>, <<3, 2>>, NoCenter >>
    /\ call.ret = <<8, 16>>

\* The claims of C14 about one scale: its domain's start at pixel 0 and its
\* end at pixel max(1, width); the pixels of two dates apart by the elapsed
\* time times max(1, width) / (domainEnd - domainStart); the later date at no
\* smaller pixel; the date inverted from a date's pixel within one pixel's
\* time of it.
ScaleMapsEnds ==
    LET width == IF call.args[3] >= 1 THEN call.args[3] ELSE 1
    IN  /\ call.ret.atStart[1] = 0
        /\ call.ret.atEnd[1] = width * call.ret.atEnd[2]

ScaleIsLinear ==
    LET width == IF call.args[3] >= 1 THEN call.args[3] ELSE 1
    IN  (call.ret.at2[1] - call.ret.at1[1]) * (call.args[2] - call.args[1])
           = (call.args[5] - call.args[4]) * width * call.ret.at1[2]

ScaleIsMonotonic ==
    call.args[4] <= call.args[5] => call.ret.at1[1] <= call.ret.at2[1]

ScaleRoundTrips ==
    LET width == IF call.args[3] >= 1 THEN call.args[3] ELSE 1
    IN  Abs(call.ret.back1 - call.args[4]) * width
           <= Abs(call.args[2] - call.args[1])

\* C14 as claimed: makeTimeScale maps domainStart to pixel 0 and domainEnd to
\* pixel max(1, width), is linear and monotonic non-decreasing in the date
\* for every width, and inverting the pixel of a date returns the date to
\* within one pixel's time.
C14_ScaleIsLinearAndInvertible ==
    call.fn = "makeTimeScale" =>
       ScaleMapsEnds /\ ScaleIsLinear /\ ScaleIsMonotonic /\ ScaleRoundTrips

\* C14: for domainStart < domainEnd makeTimeScale does all of that for every
\* width; for domainStart > domainEnd it still maps the ends to 0 and
\* max(1, width), is linear and round-trips, but is non-increasing; for
\* domainStart = domainEnd it maps every date to the middle of the range and
\* inverts every pixel to domainStart.
C14_ScaleOverOrderedDomain ==
    call.fn = "makeTimeScale" =>
       LET width == IF call.args[3] >= 1 THEN call.args[3] ELSE 1
       IN  CASE call.args[1] < call.args[2] ->
                  ScaleMapsEnds /\ ScaleIsLinear /\ ScaleIsMonotonic /\ ScaleRoundTrips
             [] call.args[1] > call.args[2] ->
                  /\ ScaleMapsEnds /\ ScaleIsLinear /\ ScaleRoundTrips
                  /\ call.args[4] <= call.args[5] =>
                       call.ret.at1[1] >= call.ret.at2[1]
             [] OTHER ->
                  /\ 2 * call.ret.at1[1] = width * call.ret.at1[2]
                  /\ 2 * call.ret.atStart[1] = width * call.ret.atStart[2]
                  /\ call.ret.back1 = call.args[1]

\* A scale of width 0 over [0, 6] put date 3 at half a pixel and inverted it
\* to date 3.
C14_ZeroWidthScale ==
    /\ call.fn = "makeTimeScale"
    /\ call.args = << 0, 6, 0, 3, 5 >>
    /\ call.ret.at1 = << 3, 6 >>
    /\ call.ret.atEnd = << 6, 6 >>
    /\ call.ret.back1 = 3

\* C15: exporting a list of tasks made of normalized fields and parsing the
\* text back gives tasks with the same id, name, start, end, assignee,
\* progress and dependencies, in the same order.
C15_RoundTripReproducesTasks ==
    call.fn = "roundTrip" => call.ret = call.args[1]

\* What the round trip does keep: the number of tasks and, for a task with
\* an id, the id; every other field comes back as the parser's default.
C15_RoundTripKeepsOnlyIds ==
    call.fn = "roundTrip" =>
        /\ Len(call.ret) = Len(call.args[1])
        /\ \A i \in 1 .. Len(call.ret) :
              /\ call.ret[i].id = call.args[1][i].id
              /\ call.ret[i].name = SynthName(1)
              /\ call.ret[i].start = startOfYearToday
              /\ call.ret[i].end = addDays(startOfYearToday, FALLBACK_DAYS)
              /\ call.ret[i].assignee = <<>>
              /\ call.ret[i].progress = 0
              /\ call.ret[i].dependencies = <<>>

\* The cells of one line, as the import reads them, and what they resolve.
Parsed == call.fn = "parseCsvToTasks"

LinesOf(csv) == PapaParse(csv)

DirectDatesResolve(r) ==
    r.Start.k \in { "date", "days" } /\ r.End.k \in { "date", "days" }

WeekFieldsResolve(r) ==
    /\ Truthy(toInt(r.StartWeek))
    /\ Truthy(toInt(r.EndWeek)) \/ Truthy(toInt(r.Duration))

AtMidnight(t) == isValid(t) /\ t % Day = 0

\* C16: the import yields exactly one task per non-empty data line, each
\* with a start and an end that are dates at midnight, whatever the line
\* holds; a line whose dates and week fields resolve nothing gets January 1
\* of the current year and the day seven days later.
C16_EveryLineYieldsADatedTask ==
    Parsed =>
        LET lines == LinesOf(call.args)
        IN  /\ Len(call.ret) = Len(lines)
            /\ \A i \in 1 .. Len(lines) :
                  /\ AtMidnight(call.ret[i].start)
                  /\ AtMidnight(call.ret[i].end)
                  /\ ~DirectDatesResolve(lines[i]) /\ ~WeekFieldsResolve(lines[i])
                        => /\ call.ret[i].start = startOfYearToday
                           /\ call.ret[i].end
                                 = addDays(startOfYearToday, FALLBACK_DAYS)

\* The lines before line i (itself included) that carry no id.
Unnamed(lines, i) == { j \in 1 .. i : lines[j].id = <<>> }

\* Synthesized ids are t-1, t-2, ... in the order of their lines.
SynthesizedInOrder ==
    Parsed =>
        LET lines == LinesOf(call.args)
        IN  \A i \in 1 .. Len(lines) :
                lines[i].id = <<>>
                    => call.ret[i].id = SynthId(Cardinality(Unnamed(lines, i)))

UniqueIds(ts) ==
    \A i \in 1 .. Len(ts), j \in 1 .. Len(ts) : i # j => ts[i].id # ts[j].id

\* C17: the tasks one parse call returns have pairwise different ids, whether
\* their lines carry an id or not, and the synthesized ids are t-<n> with n
\* increasing line by line.
C17_IdsUniqueInOneParse ==
    /\ Parsed => UniqueIds(call.ret)
    /\ SynthesizedInOrder

\* The progress a Progress cell stands for: the number it holds brought
\* into [0, 100], 0 for an absent cell and for a text that is no number.
Clamped(c) ==
    IF c.k # "days" THEN 0
    ELSE IF c.n < 0 THEN 0
    ELSE IF c.n > 100 THEN 100
    ELSE c.n

ImportedFrom(rows, ts) ==
    /\ ts = parseCsvToTasks(rows)
    /\ \A i \in 1 .. Len(rows) : ts[i].progress = Clamped(rows[i].Progress)

\* The task lists a handler can be working on: the current one and the one
\* of every render whose drag listeners are still on the window.
ListsInHand == { tasks } \cup { listeners[k].tasks : k \in DOMAIN listeners }

\* Task t has the id and the progress of a task of one of those lists.
CarriedOver(t) ==
    \E ts \in ListsInHand :
        \E n \in 1 .. Len(ts) : ts[n].id = t.id /\ ts[n].progress = t.progress

Given(c) == toInt(c).ok

BaseOf(r) ==
    IF r.Base.k \in { "date", "days" } THEN tryParseDate(r.Base).t
    ELSE startOfYearToday

\* C19: a line without usable explicit dates that gives a start week s and
\* an end week e gets start = base + (s - 1) weeks and end = base + e weeks;
\* one that gives a start week s and a duration of w weeks but no end week
\* gets start = base + (s - 1) weeks and end = start + w weeks; base is the
\* line's base date, else January 1 of the current year.  With both
\* explicit dates parsed, the week fields are ignored.
C19_WeekFieldsPlaceTheTask ==
    Parsed =>
        LET lines == LinesOf(call.args)
        IN  \A i \in 1 .. Len(lines) :
                LET r == lines[i]
                    t == call.ret[i]
                    s == toInt(r.StartWeek).n
                    weekStart == addWeeks(BaseOf(r), s - 1)
                IN  /\ ~DirectDatesResolve(r) /\ Given(r.StartWeek)
                          /\ Given(r.EndWeek)
                        => /\ t.start = weekStart
                           /\ t.end = addWeeks(BaseOf(r), toInt(r.EndWeek).n)
                    /\ ~DirectDatesResolve(r) /\ Given(r.StartWeek)
                          /\ ~Given(r.EndWeek) /\ Given(r.Duration)
                        => /\ t.start = weekStart
                           /\ t.end = addWeeks(weekStart, toInt(r.Duration).n)
                    /\ DirectDatesResolve(r)
                        => /\ t.start = DateOnly(tryParseDate(r.Start).t)
                           /\ t.end = DateOnly(tryParseDate(r.End).t)

\* The line a task is to be exported as: its fields, the dates as the
\* calendar days of its start and end.
LineOf(t) ==
    [ id |-> t.id,
      name |-> t.name,
      start |-> DateCell(startOfDay(t.start)),
      end |-> DateCell(startOfDay(t.end)),
      assignee |-> t.assignee,
      progress |-> DaysCell(t.progress),
      dependencies |-> join(t.dependencies) ]

\* C20: the exported text has exactly one line per task of the current task
\* list, in list order, under the columns id, name, start, end, assignee,
\* progress, dependencies, and each line holds the task's current values,
\* edits by drag and rename included.
C20_ExportIsTheCurrentList ==
    call.fn = "exportTasksToCsv" =>
        /\ Len(call.ret.data) = Len(tasks)
        /\ tasks # <<>> => call.ret.fields = ExportColumns
        /\ \A i \in 1 .. Len(tasks) : call.ret.data[i] = LineOf(tasks[i])

\* Text without the blanks at its two ends.
Stripped(txt) ==
    IF \A k \in 1 .. Len(txt) : txt[k] = " " THEN <<>>
    ELSE LET first == CHOOSE k \in 1 .. Len(txt) :
                          txt[k] # " " /\ \A j \in 1 .. k - 1 : txt[j] = " "
             final == CHOOSE k \in 1 .. Len(txt) :
                          txt[k] # " " /\ \A j \in k + 1 .. Len(txt) : txt[j] = " "
         IN  SubSeq(txt, first, final)

\* List ts with the task of that id given the name.
Renamed(ts, id, name) ==
    [ k \in 1 .. Len(ts) |->
        IF ts[k].id = id THEN [ ts[k] EXCEPT !.name = name ] ELSE ts[k] ]

EditedRow == CHOOSE i \in 1 .. Len(tasks) :
                 tasks[i].id = editingId /\ \A j \in 1 .. i - 1 : tasks[j].id # editingId

C22_CaptureRejectionIsCaught ==
    last.op = "png-rejected" => call.fn # "unhandledrejection"

\* The steps of the two exports: the CSV export, the click that starts the
\* image capture, and the capture resolving or rejecting.
ExportSteps == { "export", "png", "png-resolved", "png-rejected" }

\* C23: no step of the CSV export or of the image export -- started,
\* resolved or rejected, with whatever happened while the capture was
\* pending -- changes the task list or the domain window.
C23_ExportsChangeNothing ==
    [][ last'.op \in ExportSteps =>
            /\ tasks' = tasks
            /\ externalDomain' = externalDomain
            /\ internalDomain' = internalDomain ]_vars

\* The capture rejected during a drag that began, and edited the list,
\* while the capture was pending.
C23_RejectedAfterEditWhilePending ==
    /\ last.op = "png-rejected"
    /\ dragState.type = "move"
    /\ tasks # <<>>
    /\ \A rows \in SampleCsvs : tasks # parseCsvToTasks(rows)

\* The glyphs of the current render, one per task.
Drawn(i) == Glyph(variant, xScale(variant, Domain), tasks, i)

\* C24: a task of zero calendar days is drawn as a milestone marker at
\* pixel(start), never as a bar; every other task is drawn as a bar at
\* pixel(start), of width max(minimum bar width, pixel(end) - pixel(start)),
\* with a progress indicator of clamp(progress, 0, 100) / 100 of that width,
\* in the row of its position in the list (the glyph lies between
\* rowIndex * rowHeight and the next row).
C24_LayoutClassification ==
    \A i \in 1 .. Len(tasks) :
        LET sc == xScale(variant, Domain)
            t == tasks[i]
            g == Drawn(i)
        IN  /\ g.xNum = XNum(sc, t.start)
            /\ (i - 1) * ROW_HEIGHT(variant) <= g.y
            /\ g.y + BAR_HEIGHT(variant) <= i * ROW_HEIGHT(variant)
            /\ IF differenceInCalendarDays(t.end, t.start) = 0
               THEN g.kind = "milestone"
               ELSE /\ g.kind = "bar"
                    /\ g.wNum = Max(MIN_BAR_WIDTH * XDen(sc),
                                    XNum(sc, t.end) - XNum(sc, t.start))
                    /\ g.progressNum = Max(0, Min(100, t.progress)) * g.wNum

\* The same, for the tasks that do not end before they start.
C24_LayoutOfOrderedTasks ==
    \A i \in 1 .. Len(tasks) :
        tasks[i].end >= tasks[i].start =>
            (Drawn(i).kind = "milestone"
                <=> differenceInCalendarDays(tasks[i].end, tasks[i].start) = 0)

\* screen.getByText(/Download PNG/i): some rendered button carries the text.
\* (No button text of the toolbar contains it as a part, so the match is the
\* equality of the whole text.)
OffersDownloadPng == \E i \in 1 .. Len(Toolbar) : Toolbar[i].text = "Download PNG"

\* C25: the application offers a "Download PNG" action in its initial state,
\* with an empty task list, and in every later state.
C25_DownloadPngAlwaysOffered == Len(tasks) >= 0 => OffersDownloadPng

\* The pointer is where the pointer-down that opened the session was: the
\* offset that a pointer-down at clientX captures from the current render is
\* the session's.
AtGrabPosition(clientX) ==
    /\ last.op = "mousedown"
    /\ GrabOffsetNum(xScale(variant, Domain),
                     tasks[FindTask(tasks, dragState.taskId)],
                     dragState.type, clientX) = dragState.offNum

\* C26: the first pointer-move after a pointer-down, at the horizontal
\* position of that pointer-down, leaves the grabbed edge where it was: the
\* task's start in a move or a resize of the start, its end in a resize of
\* the end.
C26_ZeroDisplacementKeepsEdge ==
    [][ \A clientX \in PointerXs :
          (AtGrabPosition(clientX) /\ WindowMouseMove(clientX)) =>
             LET i == FindTask(tasks, dragState.taskId)
                 j == FindTask(tasks', dragState.taskId)
             IN  /\ j # 0
                 /\ IF dragState.type = "right"
                    THEN tasks'[j].end = tasks[i].end
                    ELSE tasks'[j].start = tasks[i].start ]_vars

\* C27: a pointer-move loses no update: when another operation (a name
\* commit, a CSV import) edited the list between the pointer-down and the
\* pointer-move, the list after the pointer-move is the list before it with
\* nothing but the dragged task's dates replaced, never a list made from the
\* pointer-down's snapshot.
C27_NoLostUpdate ==
    [][ (MoveEmits /\ ~grab.pointerOnly) =>
          /\ Len(tasks') = Len(tasks)
          /\ \A i \in DOMAIN tasks :
                IF tasks[i].id = dragState.taskId
                THEN SameButDates(tasks'[i], tasks[i])
                ELSE tasks'[i] = tasks[i] ]_vars

\* task ids, in list order
IdSequence(ts) == [ i \in DOMAIN ts |-> ts[i].id ]

\* C28: pointer-moves of a drag and name commits add, remove and reorder no
\* task: the sequence of task ids after such a step is the one before it.
C28_EditsKeepIdSequence ==
    [][ last'.op \in { "mousemove", "commit" } =>
          IdSequence(tasks') = IdSequence(tasks) ]_vars

\* C29: in every reachable state every task has a non-empty name: the parser
\* takes the record's name or makes one up, and no commit of an inline edit,
\* an empty or blank text included, empties a name.
C29_NamesNeverEmpty ==
    \A i \in DOMAIN tasks : tasks[i].name # <<>>

\* A blank text was committed over the name the parser had made up for a
\* record without one, and the task still has that name.
C29_BlankCommitOverMadeUpName ==
    /\ last.op = "commit"
    /\ tempName # <<>>
    /\ Stripped(tempName) = <<>>
    /\ \E i \in DOMAIN tasks : tasks[i].name = SynthName(1)

\* C30: for a window with start <= end, the weekly chart has as many ticks as
\* the week-rounded window spans whole weeks, its canvas is that many columns
\* of WEEK_COL_WIDTH wide, and its scale puts tick i (from 0) at
\* i * WEEK_COL_WIDTH and consecutive ticks one column apart, each within the
\* pixels of one day.
C30_TicksFallOnColumns ==
    (call.fn = "roundDomainToWeeks" /\ call.args[1] <= call.args[2]) =>
       LET rounded == call.ret
           weeks == buildWeeklyTicks(rounded)
           sc == xScale("weekly", call.args)
           den == XDen(sc)
           oneDay == XNum(sc, addDays(rounded[1], 1)) - XNum(sc, rounded[1])
       IN  /\ Len(weeks) * Week = rounded[2] + 1 - rounded[1]
           /\ sc.W = Len(weeks) * WEEK_COL_WIDTH
           /\ sc.W = virtualTimelineWidth(call.args)
           /\ \A i \in DOMAIN weeks :
                 Abs(XNum(sc, weeks[i]) - (i - 1) * WEEK_COL_WIDTH * den) <= oneDay
           /\ \A i \in 1 .. Len(weeks) - 1 :
                 Abs(XNum(sc, weeks[i + 1]) - XNum(sc, weeks[i])
                     - WEEK_COL_WIDTH * den) <= oneDay

\* The window from the Thursday of the first week to the Tuesday of the
\* third was rounded: three ticks on a canvas of three columns.
C30_ThreeColumns ==
    /\ call.fn = "roundDomainToWeeks"
    /\ call.args = << 3 * Day, 15 * Day >>
    /\ Len(buildWeeklyTicks(call.ret)) = 3
    /\ xScale("weekly", call.args).W = 3 * WEEK_COL_WIDTH

====
